---------------------------- MODULE Spec2Model ----------------------------
(***************************************************************************)
(* Model of server/config/config.go: the process-wide configuration        *)
(* snapshot AppConfig, LoadConfig and its typed parse-with-fallback        *)
(* helpers, and the accessors GetServerAddress, IsProduction and           *)
(* IsDevelopment.                                                          *)
(*                                                                         *)
(* A Go string is a sequence of one-character strings, so that the parsers *)
(* (strconv.Atoi, strconv.ParseInt, time.ParseDuration, strings.SplitSeq,  *)
(* strings.TrimSpace) are computed character by character, as the library  *)
(* computes them.  Integers are TLC integers: every in-range numeral the   *)
(* model draws is below 2^31, the out-of-range numerals it draws exceed    *)
(* 2^63, and range checks compare digit sequences, so the result is the    *)
(* one a 64-bit build produces (and, for the numerals drawn, a 32-bit      *)
(* build as well).  A time.Duration is [neg, sec, nsec]: sign, whole       *)
(* seconds and nanoseconds below one second.                               *)
(***************************************************************************)
EXTENDS Integers, Sequences, FiniteSets, TLC

-----------------------------------------------------------------------------
(* Characters and strings *)

DigitChars == <<"0", "1", "2", "3", "4", "5", "6", "7", "8", "9">>

IsDigit(c) == \E i \in 1..10 : DigitChars[i] = c

DigitVal(c) == (CHOOSE i \in 1..10 : DigitChars[i] = c) - 1

\* unicode.IsSpace restricted to the ASCII white space the model draws
IsSpace(c) == c \in {" ", "\t", "\n", "\r"}

\* the suffix of s from position i on (s[i-1:] in Go)
From(s, i) == SubSeq(s, i, Len(s))

\* length of the longest prefix of s made of decimal digits, from n on
RECURSIVE DigitPrefixLen(_, _)
DigitPrefixLen(s, n) ==
    IF n < Len(s) /\ IsDigit(s[n + 1]) THEN DigitPrefixLen(s, n + 1) ELSE n

\* strings.TrimSpace
RECURSIVE TrimLeft(_)
TrimLeft(s) == IF s /= <<>> /\ IsSpace(s[1]) THEN TrimLeft(Tail(s)) ELSE s

RECURSIVE TrimRight(_)
TrimRight(s) ==
    IF s /= <<>> /\ IsSpace(s[Len(s)]) THEN TrimRight(SubSeq(s, 1, Len(s) - 1)) ELSE s

TrimSpace(s) == TrimRight(TrimLeft(s))

\* strings.SplitSeq(s, ","): the pieces of s between commas, in order;
\* n commas give n + 1 pieces, empty ones included
RECURSIVE SplitComma(_, _)
SplitComma(s, piece) ==
    IF s = <<>> THEN <<piece>>
    ELSE IF s[1] = "," THEN <<piece>> \o SplitComma(Tail(s), <<>>)
    ELSE SplitComma(Tail(s), Append(piece, s[1]))

-----------------------------------------------------------------------------
(* Numerals *)

RECURSIVE StripZeros(_)
StripZeros(ds) == IF Len(ds) > 1 /\ ds[1] = "0" THEN StripZeros(Tail(ds)) ELSE ds

RECURSIVE LexGreater(_, _)
LexGreater(a, b) ==
    IF a = <<>> THEN FALSE
    ELSE IF a[1] /= b[1] THEN DigitVal(a[1]) > DigitVal(b[1])
    ELSE LexGreater(Tail(a), Tail(b))

\* a > b for two numerals without leading zeros
NumeralGreater(a, b) ==
    LET x == StripZeros(a)
        y == StripZeros(b)
    IN  Len(x) > Len(y) \/ (Len(x) = Len(y) /\ LexGreater(x, y))

RECURSIVE NumeralValue(_, _)
NumeralValue(ds, acc) ==
    IF ds = <<>> THEN acc ELSE NumeralValue(Tail(ds), acc * 10 + DigitVal(ds[1]))

Pow10 == [k \in 0..9 |-> CASE k = 0 -> 1 [] k = 1 -> 10 [] k = 2 -> 100 [] k = 3 -> 1000
                            [] k = 4 -> 10000 [] k = 5 -> 100000 [] k = 6 -> 1000000
                            [] k = 7 -> 10000000 [] k = 8 -> 100000000
                            [] k = 9 -> 1000000000]

\* 1<<63 - 1 and 1<<63, the largest magnitudes of a positive and a negative int64
MaxInt64Numeral == <<"9", "2", "2", "3", "3", "7", "2", "0", "3", "6", "8", "5", "4", "7", "7", "5", "8", "0", "7">>  \* "9223372036854775807"
MinInt64Numeral == <<"9", "2", "2", "3", "3", "7", "2", "0", "3", "6", "8", "5", "4", "7", "7", "5", "8", "0", "8">>  \* "9223372036854775808"

\* strconv.ParseInt(s, 10, 64): [ok, val]; ok is err == nil.  An optional
\* sign, then one or more decimal digits and nothing else, within int64.
ParseInt(s) ==
    LET signed == s /= <<>> /\ s[1] \in {"+", "-"}
        neg    == signed /\ s[1] = "-"
        ds     == IF signed THEN Tail(s) ELSE s
        syntax == ds /= <<>> /\ \A i \in 1..Len(ds) : IsDigit(ds[i])
        range  == ~NumeralGreater(ds, IF neg THEN MinInt64Numeral ELSE MaxInt64Numeral)
    IN  IF syntax /\ range
        THEN [ok |-> TRUE,
              val |-> IF neg THEN 0 - NumeralValue(StripZeros(ds), 0)
                             ELSE NumeralValue(StripZeros(ds), 0)]
        ELSE [ok |-> FALSE, val |-> 0]

\* strconv.Atoi(s): ParseInt(s, 10, 0) with int of 64 bits (its fast path
\* for short strings accepts the same strings with the same values)
Atoi(s) == ParseInt(s)

-----------------------------------------------------------------------------
(* time.Duration and time.ParseDuration *)

Duration(neg, sec, nsec) ==
    [neg |-> neg /\ (sec /= 0 \/ nsec /= 0), sec |-> sec, nsec |-> nsec]

ZeroDuration == Duration(FALSE, 0, 0)

Seconds(n) == Duration(FALSE, n, 0)

AddMagnitude(a, b) ==
    LET n == a.nsec + b.nsec
    IN  [sec |-> a.sec + b.sec + (n \div 1000000000), nsec |-> n % 1000000000]

\* time.unitMap without the two spellings of the micro sign: a unit is
\* mult seconds (exp = 9) or 10^exp nanoseconds; limit is 1<<63 / unit
unitMap ==
    (<<"n", "s">> :> [exp |-> 0, mult |-> 1, limit |-> <<"9", "2", "2", "3", "3", "7", "2", "0", "3", "6", "8", "5", "4", "7", "7", "5", "8", "0", "8">>]) @@  \* "ns", "9223372036854775808"
    (<<"u", "s">> :> [exp |-> 3, mult |-> 1, limit |-> <<"9", "2", "2", "3", "3", "7", "2", "0", "3", "6", "8", "5", "4", "7", "7", "5">>]) @@  \* "us", "9223372036854775"
    (<<"m", "s">> :> [exp |-> 6, mult |-> 1, limit |-> <<"9", "2", "2", "3", "3", "7", "2", "0", "3", "6", "8", "5", "4">>]) @@  \* "ms", "9223372036854"
    (<<"s">> :> [exp |-> 9, mult |-> 1, limit |-> <<"9", "2", "2", "3", "3", "7", "2", "0", "3", "6">>]) @@  \* "s", "9223372036"
    (<<"m">> :> [exp |-> 9, mult |-> 60, limit |-> <<"1", "5", "3", "7", "2", "2", "8", "6", "7">>]) @@  \* "m", "153722867"
    (<<"h">> :> [exp |-> 9, mult |-> 3600, limit |-> <<"2", "5", "6", "2", "0", "4", "7">>])  \* "h", "2562047"

\* v * unit for a whole number v
WholeTimes(v, u) ==
    IF u.exp = 9 THEN [sec |-> v * u.mult, nsec |-> 0]
    ELSE [sec |-> v \div Pow10[9 - u.exp], nsec |-> (v % Pow10[9 - u.exp]) * Pow10[u.exp]]

\* the i-th digit after the point times unit, rounded down to nanoseconds
\* (exact for the fractions of up to nine digits the model draws)
DigitTimes(d, i, u) ==
    IF u.exp = 9
    THEN IF i > 9 THEN [sec |-> 0, nsec |-> 0]
         ELSE [sec |-> (d * u.mult) \div Pow10[i],
               nsec |-> ((d * u.mult) % Pow10[i]) * Pow10[9 - i]]
    ELSE IF i > u.exp THEN [sec |-> 0, nsec |-> 0]
         ELSE [sec |-> 0, nsec |-> d * Pow10[u.exp - i]]

RECURSIVE FractionTimes(_, _, _)
FractionTimes(fs, i, u) ==
    IF i > Len(fs) THEN [sec |-> 0, nsec |-> 0]
    ELSE AddMagnitude(DigitTimes(DigitVal(fs[i]), i, u), FractionTimes(fs, i + 1, u))

IsUnitChar(c) == ~(c = "." \/ IsDigit(c))

\* length of the longest prefix of s without a point or a digit, from n on
RECURSIVE UnitPrefixLen(_, _)
UnitPrefixLen(s, n) ==
    IF n < Len(s) /\ IsUnitChar(s[n + 1]) THEN UnitPrefixLen(s, n + 1) ELSE n

\* the loop of time.ParseDuration over the groups [0-9]*(\.[0-9]*)?[a-z]+;
\* d is the magnitude accumulated so far
RECURSIVE ParseGroups(_, _)
ParseGroups(s, d) ==
    IF s = <<>> THEN [ok |-> TRUE, d |-> d]
    ELSE IF ~(s[1] = "." \/ IsDigit(s[1])) THEN [ok |-> FALSE, d |-> d]
    ELSE LET nInt   == DigitPrefixLen(s, 0)
             ints   == SubSeq(s, 1, nInt)
             s1     == From(s, nInt + 1)
             hasDot == s1 /= <<>> /\ s1[1] = "."
             s2     == IF hasDot THEN Tail(s1) ELSE s1
             nFrac  == IF hasDot THEN DigitPrefixLen(s2, 0) ELSE 0
             fracs  == SubSeq(s2, 1, nFrac)
             s3     == From(s2, nFrac + 1)
             nUnit  == UnitPrefixLen(s3, 0)
             unit   == SubSeq(s3, 1, nUnit)
             s4     == From(s3, nUnit + 1)
         IN  IF nInt = 0 /\ nFrac = 0 THEN [ok |-> FALSE, d |-> d]
             ELSE IF nUnit = 0 THEN [ok |-> FALSE, d |-> d]
             ELSE IF unit \notin DOMAIN unitMap THEN [ok |-> FALSE, d |-> d]
             ELSE IF nInt > 0 /\ NumeralGreater(ints, unitMap[unit].limit)
                  THEN [ok |-> FALSE, d |-> d]
             ELSE LET v == IF nInt = 0 THEN 0 ELSE NumeralValue(StripZeros(ints), 0)
                  IN  ParseGroups(s4, AddMagnitude(d,
                          AddMagnitude(WholeTimes(v, unitMap[unit]),
                                       FractionTimes(fracs, 1, unitMap[unit]))))

\* time.ParseDuration(s): [ok, val]; ok is err == nil
ParseDuration(s) ==
    LET signed == s /= <<>> /\ s[1] \in {"+", "-"}
        neg    == signed /\ s[1] = "-"
        body   == IF signed THEN Tail(s) ELSE s
        g      == ParseGroups(body, [sec |-> 0, nsec |-> 0])
    IN  IF body = <<"0">> THEN [ok |-> TRUE, val |-> ZeroDuration]
        ELSE IF body = <<>> \/ ~g.ok THEN [ok |-> FALSE, val |-> ZeroDuration]
        ELSE [ok |-> TRUE, val |-> Duration(neg, g.d.sec, g.d.nsec)]

-----------------------------------------------------------------------------
(* Bounds of the model *)

\* calls of LoadConfig in one run of the process
MaxLoads == 2

\* changes of the process environment (os.Setenv, os.Unsetenv) in one run
MaxEnvCalls == 2

\* variables set in the environment the process is started with
MaxStartSet == 1

-----------------------------------------------------------------------------
(* The process environment *)

StringKeys ==
    {"PORT", "HOST", "GOOGLE_CLIENT_ID", "GOOGLE_CLIENT_SECRET", "GOOGLE_REDIRECT_URL",
     "FRONTEND_REDIRECT_URL", "STRIPE_WEBHOOK_SECRET", "STRIPE_CANCEL_URL_DEV",
     "STRIPE_SUCCESS_URL_DEV", "STRIPE_CANCEL_URL_PROD", "STRIPE_SUCCESS_URL_PROD",
     "STRIPE_SECRET_KEY", "STRIPE_PUBLISHABLE_KEY", "COOKIE_DOMAIN", "API_KEY",
     "DB_ROOT_URL", "DB_NAME", "DB_URL", "REDIS_ADDRESS", "REDIS_PASSWORD",
     "ACCESS_TOKEN_SECRET", "REFRESH_TOKEN_SECRET", "SMTP_EMAIL", "SMTP_HOST",
     "SMTP_PASSWORD", "APP_NAME", "APP_ENV", "FRONTEND_URL", "CLOUDINARY_CLOUD_NAME",
     "CLOUDINARY_API_SECRET", "CLOUDINARY_API_KEY", "CLOUDINARY_FOLDER"}

IntKeys == {"RATE_LIMIT_ATTEMPTS", "SMTP_PORT"}

Int64Keys == {"MAX_FILE_SIZE", "MAX_IMAGE_SIZE", "MAX_VIDEO_SIZE", "MAX_DOCUMENT_SIZE"}

DurationKeys == {"RATE_LIMIT_DURATION"}

SliceKeys ==
    {"TRUSTED_PROXIES", "SKIPPED_API_ENDPOINTS", "ALLOWED_ORIGINS",
     "ALLOWED_IMAGE_TYPES", "ALLOWED_VIDEO_TYPES", "ALLOWED_DOCUMENT_TYPES"}

\* every name LoadConfig passes to os.Getenv
Keys == StringKeys \cup IntKeys \cup Int64Keys \cup DurationKeys \cup SliceKeys

\* the values the process may find a variable set to when it starts, by the
\* type LoadConfig reads the variable as
StringInputs(key) ==
    CASE key = "HOST" -> {<<>>, <<"a", "p", "i", ".", "e", "x", "a", "m", "p", "l", "e", ".", "c", "o", "m">>}  \* "", "api.example.com"
      [] key = "PORT" -> {<<>>, <<"9", "0", "9", "0">>, <<"h", "t", "t", "p">>}  \* "", "9090", "http"
      [] key = "APP_ENV" -> {<<>>, <<"p", "r", "o", "d", "u", "c", "t", "i", "o", "n">>, <<"P", "r", "o", "d", "u", "c", "t", "i", "o", "n">>, <<"s", "t", "a", "g", "i", "n", "g">>,  \* "", "production", "Production", "staging"
                             <<"d", "e", "v", "e", "l", "o", "p", "m", "e", "n", "t">>}  \* "development"
      [] OTHER -> {<<>>, <<"x">>}

NumberInputs ==
    {<<>>, <<"1", "0", "4", "8", "5", "7", "6">>, <<"-", "5">>, <<"+", "0", "0", "7">>, <<"1", "2", "a">>, <<" ", "5">>,  \* "", "1048576", "-5", "+007", "12a", " 5"
     <<"9", "9", "9", "9", "9", "9", "9", "9", "9", "9", "9", "9", "9", "9", "9", "9", "9", "9", "9", "9">>}  \* "99999999999999999999"

DurationInputs ==
    {<<>>, <<"2", "s">>, <<"2", "h", "3", "0", "m">>, <<"1", ".", "5", "s">>, <<"-", "1", "m">>, <<"0">>, <<"5">>,  \* "", "2s", "2h30m", "1.5s", "-1m", "0", "5"
     <<"n", "o", "t", "a", "d", "u", "r", "a", "t", "i", "o", "n">>}  \* "notaduration"

SliceInputs ==
    {<<>>, <<"a", ",", " ", "b", " ", ",", ",", "c">>, <<" ", ",", " ">>, <<"b", ",", "a">>}  \* "", "a, b ,,c", " , ", "b,a"

Inputs(key) ==
    IF key \in StringKeys THEN StringInputs(key)
    ELSE IF key \in IntKeys \cup Int64Keys THEN NumberInputs
    ELSE IF key \in DurationKeys THEN DurationInputs
    ELSE SliceInputs

\* the credentials of the third-party services, provisioned before the
\* process starts
ProvisionedKeys ==
    {"GOOGLE_CLIENT_ID", "GOOGLE_CLIENT_SECRET", "GOOGLE_REDIRECT_URL",
     "FRONTEND_REDIRECT_URL", "STRIPE_WEBHOOK_SECRET", "STRIPE_CANCEL_URL_DEV",
     "STRIPE_SUCCESS_URL_DEV", "STRIPE_CANCEL_URL_PROD", "STRIPE_SUCCESS_URL_PROD",
     "STRIPE_SECRET_KEY", "STRIPE_PUBLISHABLE_KEY", "CLOUDINARY_CLOUD_NAME",
     "CLOUDINARY_API_SECRET", "CLOUDINARY_API_KEY", "CLOUDINARY_FOLDER"}

\* the variables a running process changes
RuntimeKeys == Keys \ ProvisionedKeys

\* the values a running process sets a variable to: well-formed values of
\* the variable's type that differ from the default
SetenvInputs(key) ==
    CASE key = "HOST" -> {<<"a", "p", "i", ".", "e", "x", "a", "m", "p", "l", "e", ".", "c", "o", "m">>}  \* "api.example.com"
      [] key = "PORT" -> {<<"9", "0", "9", "0">>, <<"h", "t", "t", "p">>}  \* "9090", "http"
      [] key = "APP_ENV" -> {<<"p", "r", "o", "d", "u", "c", "t", "i", "o", "n">>}  \* "production"
      [] key \in StringKeys \ {"HOST", "PORT", "APP_ENV"} -> {<<"x">>}
      [] key \in IntKeys \cup Int64Keys -> {<<"1", "0", "4", "8", "5", "7", "6">>}  \* "1048576"
      [] key \in DurationKeys -> {<<"2", "s">>}  \* "2s"
      [] OTHER -> {<<"a", ",", " ", "b", " ", ",", ",", "c">>}  \* "a, b ,,c"

Absent == [set |-> FALSE, val |-> <<>>]

Present(value) == [set |-> TRUE, val |-> value]

\* Keys in some fixed order
RECURSIVE SetToSeq(_)
SetToSeq(S) ==
    IF S = {} THEN <<>>
    ELSE LET x == CHOOSE y \in S : TRUE IN <<x>> \o SetToSeq(S \ {x})

KeySeq == SetToSeq(Keys)

\* the ways to set at most n of the variables KeySeq[i], KeySeq[i + 1], ...:
\* sequences of <<index in KeySeq, value>> with increasing indexes
RECURSIVE Settings(_, _)
Settings(i, n) ==
    IF n = 0 THEN {<<>>}
    ELSE {<<>>} \cup
         UNION {{<<<<j, value>>>> \o rest :
                     value \in Inputs(KeySeq[j]), rest \in Settings(j + 1, n - 1)}
                : j \in i..Len(KeySeq)}

\* the environment in which exactly the variables of a setting are set
EnvOf(setting) ==
    [key \in Keys |->
        IF \E i \in 1..Len(setting) : KeySeq[setting[i][1]] = key
        THEN Present(setting[CHOOSE i \in 1..Len(setting) : KeySeq[setting[i][1]] = key][2])
        ELSE Absent]

Nil == 0

VARIABLES
    env,        \* the process environment: key -> [set, val]
    AppConfig,  \* the global *Config: Nil, or the address of a Config in heap
    heap,       \* the Config struct AppConfig points to, by address
    pc,         \* the position of the process: "idle" between calls, the line
                \* of LoadConfig about to run, or "panic" once it has crashed
    stdout,     \* the number of completion notices printed
    loaded,     \* history: the environment the latest LoadConfig read
    dropped,    \* history: the variables that had a value when the LoadConfig
                \* before the latest ran and had none when the latest ran
    envCalls    \* history: the number of environment changes so far

vars == <<env, AppConfig, heap, pc, stdout, loaded, dropped, envCalls>>

\* os.Getenv: the value of the variable, "" when it is not set
Getenv(key) == IF env[key].set THEN env[key].val ELSE <<>>

-----------------------------------------------------------------------------
(* Helper functions for parsing environment variables *)

\* mutant: the default only when the variable is not set at all
getEnvOrDefault_LookupEnv(key, defaultValue) ==
    IF env[key].set THEN env[key].val ELSE defaultValue

getEnvOrDefault(key, defaultValue) ==
    LET value == Getenv(key)
    IN  IF value /= <<>> THEN value ELSE defaultValue

getEnvAsInt(key, defaultValue) ==
    LET value == Getenv(key)
    IN  IF value /= <<>> /\ Atoi(value).ok THEN Atoi(value).val ELSE defaultValue

getEnvAsInt64(key, defaultValue) ==
    LET value == Getenv(key)
    IN  IF value /= <<>> /\ ParseInt(value).ok THEN ParseInt(value).val ELSE defaultValue

\* mutant: the zero duration when the value does not parse
getEnvAsDuration_ZeroOnError(key, defaultValue) ==
    LET value == IF Getenv(key) = <<>> THEN defaultValue ELSE Getenv(key)
    IN  ParseDuration(value).val

getEnvAsDuration(key, defaultValue) ==
    LET value == IF Getenv(key) = <<>> THEN defaultValue ELSE Getenv(key)
    IN  IF ParseDuration(value).ok THEN ParseDuration(value).val
        ELSE ParseDuration(defaultValue).val

\* the loop of getEnvAsStringSlice over the pieces: append the trimmed
\* piece unless it is empty
RECURSIVE appendTrimmed(_, _)
appendTrimmed(items, result) ==
    IF items = <<>> THEN result
    ELSE LET trimmed == TrimSpace(Head(items))
         IN  appendTrimmed(Tail(items),
                           IF trimmed /= <<>> THEN Append(result, trimmed) ELSE result)

\* mutant: the pieces of the value are appended to the default
getEnvAsStringSlice_Merge(key, defaultValue) ==
    LET value == Getenv(key)
    IN  IF value = <<>> THEN defaultValue
        ELSE appendTrimmed(SplitComma(value, <<>>), defaultValue)

\* a nil []string and an empty one are both <<>>
getEnvAsStringSlice(key, defaultValue) ==
    LET value == Getenv(key)
    IN  IF value = <<>> THEN defaultValue
        ELSE appendTrimmed(SplitComma(value, <<>>), <<>>)

-----------------------------------------------------------------------------
(* LoadConfig *)

\* the composite literal of lines 76-134.  MaxFileSize is declared int64 and
\* read from MAX_FILE_SIZE here; line 140 replaces it by the mapping, so
\* the field is [scalar |-> n] until then.  The three Allowed*Types fields
\* that lines 136-138 assign hold the zero value (a nil slice) until then.
ConfigLiteral ==
    [ServerPort |-> getEnvOrDefault("PORT", <<"8", "0", "8", "0">>),  \* "8080"
     ServerHost |-> getEnvOrDefault("HOST", <<"l", "o", "c", "a", "l", "h", "o", "s", "t">>),  \* "localhost"
     GoogleClientID |-> getEnvOrDefault("GOOGLE_CLIENT_ID", <<"y", "o", "u", "r", "-", "g", "o", "o", "g", "l", "e", "-", "c", "l", "i", "e", "n", "t", "-", "i", "d">>),  \* "your-google-client-id"
     GoogleClientSecret |-> getEnvOrDefault("GOOGLE_CLIENT_SECRET", <<"y", "o", "u", "r", "-", "g", "o", "o", "g", "l", "e", "-", "c", "l", "i", "e", "n", "t", "-", "s", "e", "c", "r", "e", "t">>),  \* "your-google-client-secret"
     GoogleRedirectURL |-> getEnvOrDefault("GOOGLE_REDIRECT_URL", <<"h", "t", "t", "p", ":", "/", "/", "l", "o", "c", "a", "l", "h", "o", "s", "t", ":", "5", "0", "0", "5", "/", "a", "p", "i", "/", "v", "1", "/", "u", "s", "e", "r", "s", "/", "g", "o", "o", "g", "l", "e", "/", "c", "a", "l", "l", "b", "a", "c", "k">>),  \* "http://localhost:5005/api/v1/users/google/callback"
     FrontendRedirectURL |-> getEnvOrDefault("FRONTEND_REDIRECT_URL", <<"h", "t", "t", "p", ":", "/", "/", "l", "o", "c", "a", "l", "h", "o", "s", "t", ":", "5", "1", "7", "3">>),  \* "http://localhost:5173"
     StripeWebhookSecret |-> getEnvOrDefault("STRIPE_WEBHOOK_SECRET", <<"y", "o", "u", "r", "-", "s", "t", "r", "i", "p", "e", "-", "w", "e", "b", "h", "o", "o", "k", "-", "s", "e", "c", "r", "e", "t">>),  \* "your-stripe-webhook-secret"
     StripeCancelUrlDev |-> getEnvOrDefault("STRIPE_CANCEL_URL_DEV", <<"h", "t", "t", "p", ":", "/", "/", "l", "o", "c", "a", "l", "h", "o", "s", "t", ":", "5", "1", "7", "3", "/", "c", "h", "e", "c", "k", "o", "u", "t", "/", "c", "a", "n", "c", "e", "l">>),  \* "http://localhost:5173/checkout/cancel"
     StripeSuccessUrlDev |-> getEnvOrDefault("STRIPE_SUCCESS_URL_DEV", <<"h", "t", "t", "p", ":", "/", "/", "l", "o", "c", "a", "l", "h", "o", "s", "t", ":", "5", "1", "7", "3", "/", "c", "h", "e", "c", "k", "o", "u", "t", "/", "s", "u", "c", "c", "e", "s", "s">>),  \* "http://localhost:5173/checkout/success"
     StripeCancelUrlProd |-> getEnvOrDefault("STRIPE_CANCEL_URL_PROD", <<"h", "t", "t", "p", "s", ":", "/", "/", "y", "o", "u", "r", "-", "p", "r", "o", "d", "u", "c", "t", "i", "o", "n", "-", "u", "r", "l", "/", "c", "h", "e", "c", "k", "o", "u", "t", "/", "c", "a", "n", "c", "e", "l">>),  \* "https://your-production-url/checkout/cancel"
     StripeSuccessUrlProd |-> getEnvOrDefault("STRIPE_SUCCESS_URL_PROD", <<"h", "t", "t", "p", "s", ":", "/", "/", "y", "o", "u", "r", "-", "p", "r", "o", "d", "u", "c", "t", "i", "o", "n", "-", "u", "r", "l", "/", "c", "h", "e", "c", "k", "o", "u", "t", "/", "s", "u", "c", "c", "e", "s", "s">>),  \* "https://your-production-url/checkout/success"
     StripeSecretKey |-> getEnvOrDefault("STRIPE_SECRET_KEY", <<"y", "o", "u", "r", "-", "s", "t", "r", "i", "p", "e", "-", "s", "e", "c", "r", "e", "t", "-", "k", "e", "y">>),  \* "your-stripe-secret-key"
     StripePublishableKey |-> getEnvOrDefault("STRIPE_PUBLISHABLE_KEY", <<"y", "o", "u", "r", "-", "s", "t", "r", "i", "p", "e", "-", "p", "u", "b", "l", "i", "s", "h", "a", "b", "l", "e", "-", "k", "e", "y">>),  \* "your-stripe-publishable-key"
     CookieDomain |-> getEnvOrDefault("COOKIE_DOMAIN", <<"l", "o", "c", "a", "l", "h", "o", "s", "t">>),  \* "localhost"
     ApiKeys |-> getEnvOrDefault("API_KEY", <<"y", "o", "u", "r", "-", "a", "p", "i", "-", "k", "e", "y", "s">>),  \* "your-api-keys"
     RateLimitAttempts |-> getEnvAsInt("RATE_LIMIT_ATTEMPTS", 100),
     RateLimitDuration |-> getEnvAsDuration("RATE_LIMIT_DURATION", <<"6", "0", "s">>),  \* "60s"
     MaxFileSize |-> [scalar |-> getEnvAsInt64("MAX_FILE_SIZE", 12 * 1048576)],
     TrustedProxies |-> getEnvAsStringSlice("TRUSTED_PROXIES", <<<<"l", "o", "c", "a", "l", "h", "o", "s", "t">>>>),  \* "localhost"
     SkippedApiEndpoints |-> getEnvAsStringSlice("SKIPPED_API_ENDPOINTS", <<<<"/", "h", "e", "a", "l", "t", "h">>>>),  \* "/health"
     AllowedOrigins |-> getEnvAsStringSlice("ALLOWED_ORIGINS", <<<<"h", "t", "t", "p", ":", "/", "/", "l", "o", "c", "a", "l", "h", "o", "s", "t", ":", "3", "0", "0", "0">>>>),  \* "http://localhost:3000"
     DatabaseRootURL |-> getEnvOrDefault("DB_ROOT_URL", <<"y", "o", "u", "r", "-", "d", "b", "-", "r", "o", "o", "t", "-", "u", "r", "l">>),  \* "your-db-root-url"
     DatabaseName |-> getEnvOrDefault("DB_NAME", <<"y", "o", "u", "r", "-", "d", "b", "-", "n", "a", "m", "e">>),  \* "your-db-name"
     DatabaseURL |-> getEnvOrDefault("DB_URL", <<"y", "o", "u", "r", "-", "d", "b", "-", "u", "r", "l">>),  \* "your-db-url"
     RedisAddress |-> getEnvOrDefault("REDIS_ADDRESS", <<"l", "o", "c", "a", "l", "h", "o", "s", "t", ":", "6", "3", "7", "9">>),  \* "localhost:6379"
     RedisPassword |-> getEnvOrDefault("REDIS_PASSWORD", <<>>),
     AccessTokenSecret |-> getEnvOrDefault("ACCESS_TOKEN_SECRET", <<"y", "o", "u", "r", "-", "s", "e", "c", "r", "e", "t", "-", "k", "e", "y">>),  \* "your-secret-key"
     RefreshTokenSecret |-> getEnvOrDefault("REFRESH_TOKEN_SECRET", <<"y", "o", "u", "r", "-", "r", "e", "f", "r", "e", "s", "h", "-", "t", "o", "k", "e", "n", "-", "s", "e", "c", "r", "e", "t">>),  \* "your-refresh-token-secret"
     SMTPEmail |-> getEnvOrDefault("SMTP_EMAIL", <<>>),
     SMTPPort |-> getEnvAsInt("SMTP_PORT", 587),
     SMTPHost |-> getEnvOrDefault("SMTP_HOST", <<>>),
     SMTPPassword |-> getEnvOrDefault("SMTP_PASSWORD", <<>>),
     AppName |-> getEnvOrDefault("APP_NAME", <<"A", "s", "s", "e", "t", " ", "M", "a", "n", "a", "g", "e", "m", "e", "n", "t", " ", "S", "y", "s", "t", "e", "m">>),  \* "Asset Management System"
     AppEnv |-> getEnvOrDefault("APP_ENV", <<"d", "e", "v", "e", "l", "o", "p", "m", "e", "n", "t">>),  \* "development"
     FrontendURL |-> getEnvOrDefault("FRONTEND_URL", <<"h", "t", "t", "p", ":", "/", "/", "l", "o", "c", "a", "l", "h", "o", "s", "t", ":", "5", "1", "7", "3">>),  \* "http://localhost:5173"
     CloudName |-> getEnvOrDefault("CLOUDINARY_CLOUD_NAME", <<"y", "o", "u", "r", "-", "c", "l", "o", "u", "d", "i", "n", "a", "r", "y", "-", "c", "l", "o", "u", "d", "-", "n", "a", "m", "e">>),  \* "your-cloudinary-cloud-name"
     CloudSecret |-> getEnvOrDefault("CLOUDINARY_API_SECRET", <<"y", "o", "u", "r", "-", "c", "l", "o", "u", "d", "i", "n", "a", "r", "y", "-", "a", "p", "i", "-", "s", "e", "c", "r", "e", "t">>),  \* "your-cloudinary-api-secret"
     CloudApiKey |-> getEnvOrDefault("CLOUDINARY_API_KEY", <<"y", "o", "u", "r", "-", "c", "l", "o", "u", "d", "i", "n", "a", "r", "y", "-", "a", "p", "i", "-", "k", "e", "y">>),  \* "your-cloudinary-api-key"
     CloudFolder |-> getEnvOrDefault("CLOUDINARY_FOLDER", <<"a", "s", "s", "e", "t", "_", "m", "a", "n", "a", "g", "e", "m", "e", "n", "t", "_", "a", "p", "p">>),  \* "asset_management_app"
     AllowedImageTypes |-> <<>>,
     AllowedVideoTypes |-> <<>>,
     AllowedDocumentTypes |-> <<>>]

\* mutant: a reload keeps the port of the snapshot it replaces when PORT
\* has no value
LoadConfig_Literal_KeepUnset ==
    /\ pc = "idle"
    /\ AppConfig < MaxLoads
    /\ heap' = (AppConfig + 1 :>
                   IF AppConfig /= Nil /\ Getenv("PORT") = <<>>
                   THEN [ConfigLiteral EXCEPT !.ServerPort = heap[AppConfig].ServerPort]
                   ELSE ConfigLiteral)
    /\ AppConfig' = AppConfig + 1
    /\ loaded' = env
    /\ dropped' = {key \in Keys : AppConfig /= Nil /\ loaded[key].set
                                   /\ loaded[key].val /= <<>> /\ Getenv(key) = <<>>}
    /\ pc' = "L136"
    /\ UNCHANGED <<env, stdout, envCalls>>

\* lines 75-134: AppConfig = &Config{...}.  A new struct is allocated and
\* installed in the global at once; the struct it replaces is no longer
\* reachable from the global and is dropped from heap.
LoadConfig_Literal ==
    /\ pc = "idle"
    /\ AppConfig < MaxLoads
    /\ heap' = (AppConfig + 1 :> ConfigLiteral)
    /\ AppConfig' = AppConfig + 1
    /\ loaded' = env
    /\ dropped' = {key \in Keys : AppConfig /= Nil /\ loaded[key].set
                                   /\ loaded[key].val /= <<>> /\ Getenv(key) = <<>>}
    /\ pc' = "L136"
    /\ UNCHANGED <<env, stdout, envCalls>>

\* line 136
LoadConfig_ImageTypes ==
    /\ pc = "L136"
    /\ heap' = [heap EXCEPT ![AppConfig].AllowedImageTypes =
                   getEnvAsStringSlice("ALLOWED_IMAGE_TYPES", <<<<"i", "m", "a", "g", "e", "/", "j", "p", "e", "g">>, <<"i", "m", "a", "g", "e", "/", "p", "n", "g">>>>)]  \* "image/jpeg", "image/png"
    /\ pc' = "L137"
    /\ UNCHANGED <<env, AppConfig, stdout, loaded, dropped, envCalls>>

\* line 137
LoadConfig_VideoTypes ==
    /\ pc = "L137"
    /\ heap' = [heap EXCEPT ![AppConfig].AllowedVideoTypes =
                   getEnvAsStringSlice("ALLOWED_VIDEO_TYPES", <<<<"v", "i", "d", "e", "o", "/", "m", "p", "4">>>>)]  \* "video/mp4"
    /\ pc' = "L138"
    /\ UNCHANGED <<env, AppConfig, stdout, loaded, dropped, envCalls>>

\* line 138
LoadConfig_DocumentTypes ==
    /\ pc = "L138"
    /\ heap' = [heap EXCEPT ![AppConfig].AllowedDocumentTypes =
                   getEnvAsStringSlice("ALLOWED_DOCUMENT_TYPES", <<<<"a", "p", "p", "l", "i", "c", "a", "t", "i", "o", "n", "/", "p", "d", "f">>>>)]  \* "application/pdf"
    /\ pc' = "L140"
    /\ UNCHANGED <<env, AppConfig, stdout, loaded, dropped, envCalls>>

\* lines 140-144
MaxFileSizeLiteral ==
    [images |-> getEnvAsInt64("MAX_IMAGE_SIZE", 2 * 1048576),
     videos |-> getEnvAsInt64("MAX_VIDEO_SIZE", 100 * 1048576),
     documents |-> getEnvAsInt64("MAX_DOCUMENT_SIZE", 10 * 1048576)]

LoadConfig_MaxFileSize ==
    /\ pc = "L140"
    /\ heap' = [heap EXCEPT ![AppConfig].MaxFileSize = MaxFileSizeLiteral]
    /\ pc' = "L146"
    /\ UNCHANGED <<env, AppConfig, stdout, loaded, dropped, envCalls>>

\* lines 146-147: the completion notice, and the return
LoadConfig_Println ==
    /\ pc = "L146"
    /\ stdout' = stdout + 1
    /\ pc' = "idle"
    /\ UNCHANGED <<env, AppConfig, heap, loaded, dropped, envCalls>>

-----------------------------------------------------------------------------
(* The accessors.  Each dereferences AppConfig and has no side effect: on  *)
(* the nil pointer the dereference panics, which ends the process.          *)

\* mutant: the host and the port without the colon between them
GetServerAddress_NoColon == heap[AppConfig].ServerHost \o heap[AppConfig].ServerPort

\* mutant: the address is read from the environment at the time of the call
GetServerAddress_LiveEnv ==
    getEnvOrDefault("HOST", <<"l", "o", "c", "a", "l", "h", "o", "s", "t">>) \o <<":">> \o getEnvOrDefault("PORT", <<"8", "0", "8", "0">>)  \* "localhost", "8080"

GetServerAddress == heap[AppConfig].ServerHost \o <<":">> \o heap[AppConfig].ServerPort

\* mutant: production is whatever is not development
IsProduction_NotDevelopment == heap[AppConfig].AppEnv /= <<"d", "e", "v", "e", "l", "o", "p", "m", "e", "n", "t">>  \* "development"

IsProduction == heap[AppConfig].AppEnv = <<"p", "r", "o", "d", "u", "c", "t", "i", "o", "n">>  \* "production"

\* mutant: development is whatever is not production
IsDevelopment_NotProduction == heap[AppConfig].AppEnv /= <<"p", "r", "o", "d", "u", "c", "t", "i", "o", "n">>  \* "production"

IsDevelopment == heap[AppConfig].AppEnv = <<"d", "e", "v", "e", "l", "o", "p", "m", "e", "n", "t">>  \* "development"

\* a call of an accessor: it returns the value above, or panics
Call_GetServerAddress ==
    /\ pc = "idle"
    /\ pc' = IF AppConfig = Nil THEN "panic" ELSE pc
    /\ UNCHANGED <<env, AppConfig, heap, stdout, loaded, dropped, envCalls>>

\* mutant: no dereference, so no panic on the nil pointer
Call_IsProduction_NilSafe ==
    /\ pc = "idle"
    /\ pc' = pc
    /\ UNCHANGED <<env, AppConfig, heap, stdout, loaded, dropped, envCalls>>

Call_IsProduction ==
    /\ pc = "idle"
    /\ pc' = IF AppConfig = Nil THEN "panic" ELSE pc
    /\ UNCHANGED <<env, AppConfig, heap, stdout, loaded, dropped, envCalls>>

Call_IsDevelopment ==
    /\ pc = "idle"
    /\ pc' = IF AppConfig = Nil THEN "panic" ELSE pc
    /\ UNCHANGED <<env, AppConfig, heap, stdout, loaded, dropped, envCalls>>

-----------------------------------------------------------------------------
(* Changes of the environment between calls (the process is single-threaded) *)

Setenv ==
    /\ pc = "idle"
    /\ envCalls < MaxEnvCalls
    /\ \E key \in RuntimeKeys : \E value \in SetenvInputs(key) :
           env' = [env EXCEPT ![key] = Present(value)]
    /\ envCalls' = envCalls + 1
    /\ UNCHANGED <<AppConfig, heap, pc, stdout, loaded, dropped>>

Unsetenv ==
    /\ pc = "idle"
    /\ envCalls < MaxEnvCalls
    /\ \E key \in Keys :
           /\ env[key].set
           /\ env' = [env EXCEPT ![key] = Absent]
    /\ envCalls' = envCalls + 1
    /\ UNCHANGED <<AppConfig, heap, pc, stdout, loaded, dropped>>

-----------------------------------------------------------------------------

Init ==
    /\ env = [key \in Keys |-> Absent]
    /\ AppConfig = Nil
    /\ heap = <<>>
    /\ pc = "idle"
    /\ stdout = 0
    /\ loaded = [key \in Keys |-> Absent]
    /\ dropped = {}
    /\ envCalls = 0

Next ==
    \/ LoadConfig_Literal
    \/ LoadConfig_ImageTypes
    \/ LoadConfig_VideoTypes
    \/ LoadConfig_DocumentTypes
    \/ LoadConfig_MaxFileSize
    \/ LoadConfig_Println
    \/ Call_GetServerAddress
    \/ Call_IsProduction
    \/ Call_IsDevelopment
    \/ Setenv
    \/ Unsetenv

Spec == Init /\ [][Next]_vars

\* A process started with any environment of at most MaxStartSet variables,
\* which loads its configuration once, as the host application is expected
\* to, and reads it, leaving the environment alone
InitStart ==
    /\ \E setting \in Settings(1, MaxStartSet) : env = EnvOf(setting)
    /\ AppConfig = Nil
    /\ heap = <<>>
    /\ pc = "idle"
    /\ stdout = 0
    /\ loaded = [key \in Keys |-> Absent]
    /\ dropped = {}
    /\ envCalls = 0

LoadConfig_Once == AppConfig = Nil /\ LoadConfig_Literal

NextStart ==
    \/ LoadConfig_Once
    \/ LoadConfig_ImageTypes
    \/ LoadConfig_VideoTypes
    \/ LoadConfig_DocumentTypes
    \/ LoadConfig_MaxFileSize
    \/ LoadConfig_Println
    \/ Call_GetServerAddress
    \/ Call_IsProduction
    \/ Call_IsDevelopment

SpecStart == InitStart /\ [][NextStart]_vars

-----------------------------------------------------------------------------
(* What the specification says of the snapshot *)

\* the snapshot: the struct the global points to
Snapshot == heap[AppConfig]

\* LoadConfig has run and is not running
Initialized == AppConfig /= Nil /\ pc = "idle"

\* every variable but MAX_FILE_SIZE, whose field line 140 replaces
SupportedKeys == Keys \ {"MAX_FILE_SIZE"}

\* the field of a completed snapshot that a variable sets
Field(c, key) ==
    CASE key = "PORT" -> c.ServerPort
      [] key = "HOST" -> c.ServerHost
      [] key = "GOOGLE_CLIENT_ID" -> c.GoogleClientID
      [] key = "GOOGLE_CLIENT_SECRET" -> c.GoogleClientSecret
      [] key = "GOOGLE_REDIRECT_URL" -> c.GoogleRedirectURL
      [] key = "FRONTEND_REDIRECT_URL" -> c.FrontendRedirectURL
      [] key = "STRIPE_WEBHOOK_SECRET" -> c.StripeWebhookSecret
      [] key = "STRIPE_CANCEL_URL_DEV" -> c.StripeCancelUrlDev
      [] key = "STRIPE_SUCCESS_URL_DEV" -> c.StripeSuccessUrlDev
      [] key = "STRIPE_CANCEL_URL_PROD" -> c.StripeCancelUrlProd
      [] key = "STRIPE_SUCCESS_URL_PROD" -> c.StripeSuccessUrlProd
      [] key = "STRIPE_SECRET_KEY" -> c.StripeSecretKey
      [] key = "STRIPE_PUBLISHABLE_KEY" -> c.StripePublishableKey
      [] key = "COOKIE_DOMAIN" -> c.CookieDomain
      [] key = "API_KEY" -> c.ApiKeys
      [] key = "RATE_LIMIT_ATTEMPTS" -> c.RateLimitAttempts
      [] key = "RATE_LIMIT_DURATION" -> c.RateLimitDuration
      [] key = "TRUSTED_PROXIES" -> c.TrustedProxies
      [] key = "SKIPPED_API_ENDPOINTS" -> c.SkippedApiEndpoints
      [] key = "ALLOWED_ORIGINS" -> c.AllowedOrigins
      [] key = "DB_ROOT_URL" -> c.DatabaseRootURL
      [] key = "DB_NAME" -> c.DatabaseName
      [] key = "DB_URL" -> c.DatabaseURL
      [] key = "REDIS_ADDRESS" -> c.RedisAddress
      [] key = "REDIS_PASSWORD" -> c.RedisPassword
      [] key = "ACCESS_TOKEN_SECRET" -> c.AccessTokenSecret
      [] key = "REFRESH_TOKEN_SECRET" -> c.RefreshTokenSecret
      [] key = "SMTP_EMAIL" -> c.SMTPEmail
      [] key = "SMTP_PORT" -> c.SMTPPort
      [] key = "SMTP_HOST" -> c.SMTPHost
      [] key = "SMTP_PASSWORD" -> c.SMTPPassword
      [] key = "APP_NAME" -> c.AppName
      [] key = "APP_ENV" -> c.AppEnv
      [] key = "FRONTEND_URL" -> c.FrontendURL
      [] key = "CLOUDINARY_CLOUD_NAME" -> c.CloudName
      [] key = "CLOUDINARY_API_SECRET" -> c.CloudSecret
      [] key = "CLOUDINARY_API_KEY" -> c.CloudApiKey
      [] key = "CLOUDINARY_FOLDER" -> c.CloudFolder
      [] key = "ALLOWED_IMAGE_TYPES" -> c.AllowedImageTypes
      [] key = "ALLOWED_VIDEO_TYPES" -> c.AllowedVideoTypes
      [] key = "ALLOWED_DOCUMENT_TYPES" -> c.AllowedDocumentTypes
      [] key = "MAX_IMAGE_SIZE" -> c.MaxFileSize.images
      [] key = "MAX_VIDEO_SIZE" -> c.MaxFileSize.videos
      [] key = "MAX_DOCUMENT_SIZE" -> c.MaxFileSize.documents

\* the default the specification documents for a variable (section 6); where
\* it only says "placeholder", the placeholder is the one of the source
DocumentedDefault(key) ==
    CASE key = "PORT" -> <<"8", "0", "8", "0">>  \* "8080"
      [] key = "HOST" -> <<"l", "o", "c", "a", "l", "h", "o", "s", "t">>  \* "localhost"
      [] key = "API_KEY" -> <<"y", "o", "u", "r", "-", "a", "p", "i", "-", "k", "e", "y", "s">>  \* "your-api-keys"
      [] key = "COOKIE_DOMAIN" -> <<"l", "o", "c", "a", "l", "h", "o", "s", "t">>  \* "localhost"
      [] key = "RATE_LIMIT_ATTEMPTS" -> 100
      [] key = "RATE_LIMIT_DURATION" -> Seconds(60)
      [] key = "TRUSTED_PROXIES" -> <<<<"l", "o", "c", "a", "l", "h", "o", "s", "t">>>>  \* "localhost"
      [] key = "SKIPPED_API_ENDPOINTS" -> <<<<"/", "h", "e", "a", "l", "t", "h">>>>  \* "/health"
      [] key = "ALLOWED_ORIGINS" -> <<<<"h", "t", "t", "p", ":", "/", "/", "l", "o", "c", "a", "l", "h", "o", "s", "t", ":", "3", "0", "0", "0">>>>  \* "http://localhost:3000"
      [] key = "DB_ROOT_URL" -> <<"y", "o", "u", "r", "-", "d", "b", "-", "r", "o", "o", "t", "-", "u", "r", "l">>  \* "your-db-root-url"
      [] key = "DB_NAME" -> <<"y", "o", "u", "r", "-", "d", "b", "-", "n", "a", "m", "e">>  \* "your-db-name"
      [] key = "DB_URL" -> <<"y", "o", "u", "r", "-", "d", "b", "-", "u", "r", "l">>  \* "your-db-url"
      [] key = "REDIS_ADDRESS" -> <<"l", "o", "c", "a", "l", "h", "o", "s", "t", ":", "6", "3", "7", "9">>  \* "localhost:6379"
      [] key = "REDIS_PASSWORD" -> <<>>
      [] key = "ACCESS_TOKEN_SECRET" -> <<"y", "o", "u", "r", "-", "s", "e", "c", "r", "e", "t", "-", "k", "e", "y">>  \* "your-secret-key"
      [] key = "REFRESH_TOKEN_SECRET" -> <<"y", "o", "u", "r", "-", "r", "e", "f", "r", "e", "s", "h", "-", "t", "o", "k", "e", "n", "-", "s", "e", "c", "r", "e", "t">>  \* "your-refresh-token-secret"
      [] key = "SMTP_HOST" -> <<>>
      [] key = "SMTP_EMAIL" -> <<>>
      [] key = "SMTP_PASSWORD" -> <<>>
      [] key = "SMTP_PORT" -> 587
      [] key = "APP_NAME" -> <<"A", "s", "s", "e", "t", " ", "M", "a", "n", "a", "g", "e", "m", "e", "n", "t", " ", "S", "y", "s", "t", "e", "m">>  \* "Asset Management System"
      [] key = "APP_ENV" -> <<"d", "e", "v", "e", "l", "o", "p", "m", "e", "n", "t">>  \* "development"
      [] key = "FRONTEND_URL" -> <<"h", "t", "t", "p", ":", "/", "/", "l", "o", "c", "a", "l", "h", "o", "s", "t", ":", "5", "1", "7", "3">>  \* "http://localhost:5173"
      [] key = "CLOUDINARY_CLOUD_NAME" -> <<"y", "o", "u", "r", "-", "c", "l", "o", "u", "d", "i", "n", "a", "r", "y", "-", "c", "l", "o", "u", "d", "-", "n", "a", "m", "e">>  \* "your-cloudinary-cloud-name"
      [] key = "CLOUDINARY_API_SECRET" -> <<"y", "o", "u", "r", "-", "c", "l", "o", "u", "d", "i", "n", "a", "r", "y", "-", "a", "p", "i", "-", "s", "e", "c", "r", "e", "t">>  \* "your-cloudinary-api-secret"
      [] key = "CLOUDINARY_API_KEY" -> <<"y", "o", "u", "r", "-", "c", "l", "o", "u", "d", "i", "n", "a", "r", "y", "-", "a", "p", "i", "-", "k", "e", "y">>  \* "your-cloudinary-api-key"
      [] key = "CLOUDINARY_FOLDER" -> <<"a", "s", "s", "e", "t", "_", "m", "a", "n", "a", "g", "e", "m", "e", "n", "t", "_", "a", "p", "p">>  \* "asset_management_app"
      [] key = "GOOGLE_CLIENT_ID" -> <<"y", "o", "u", "r", "-", "g", "o", "o", "g", "l", "e", "-", "c", "l", "i", "e", "n", "t", "-", "i", "d">>  \* "your-google-client-id"
      [] key = "GOOGLE_CLIENT_SECRET" -> <<"y", "o", "u", "r", "-", "g", "o", "o", "g", "l", "e", "-", "c", "l", "i", "e", "n", "t", "-", "s", "e", "c", "r", "e", "t">>  \* "your-google-client-secret"
      [] key = "GOOGLE_REDIRECT_URL" -> <<"h", "t", "t", "p", ":", "/", "/", "l", "o", "c", "a", "l", "h", "o", "s", "t", ":", "5", "0", "0", "5", "/", "a", "p", "i", "/", "v", "1", "/", "u", "s", "e", "r", "s", "/", "g", "o", "o", "g", "l", "e", "/", "c", "a", "l", "l", "b", "a", "c", "k">>  \* "http://localhost:5005/api/v1/users/google/callback"
      [] key = "FRONTEND_REDIRECT_URL" -> <<"h", "t", "t", "p", ":", "/", "/", "l", "o", "c", "a", "l", "h", "o", "s", "t", ":", "5", "1", "7", "3">>  \* "http://localhost:5173"
      [] key = "STRIPE_WEBHOOK_SECRET" -> <<"y", "o", "u", "r", "-", "s", "t", "r", "i", "p", "e", "-", "w", "e", "b", "h", "o", "o", "k", "-", "s", "e", "c", "r", "e", "t">>  \* "your-stripe-webhook-secret"
      [] key = "STRIPE_CANCEL_URL_DEV" -> <<"h", "t", "t", "p", ":", "/", "/", "l", "o", "c", "a", "l", "h", "o", "s", "t", ":", "5", "1", "7", "3", "/", "c", "h", "e", "c", "k", "o", "u", "t", "/", "c", "a", "n", "c", "e", "l">>  \* "http://localhost:5173/checkout/cancel"
      [] key = "STRIPE_SUCCESS_URL_DEV" -> <<"h", "t", "t", "p", ":", "/", "/", "l", "o", "c", "a", "l", "h", "o", "s", "t", ":", "5", "1", "7", "3", "/", "c", "h", "e", "c", "k", "o", "u", "t", "/", "s", "u", "c", "c", "e", "s", "s">>  \* "http://localhost:5173/checkout/success"
      [] key = "STRIPE_CANCEL_URL_PROD" -> <<"h", "t", "t", "p", "s", ":", "/", "/", "y", "o", "u", "r", "-", "p", "r", "o", "d", "u", "c", "t", "i", "o", "n", "-", "u", "r", "l", "/", "c", "h", "e", "c", "k", "o", "u", "t", "/", "c", "a", "n", "c", "e", "l">>  \* "https://your-production-url/checkout/cancel"
      [] key = "STRIPE_SUCCESS_URL_PROD" -> <<"h", "t", "t", "p", "s", ":", "/", "/", "y", "o", "u", "r", "-", "p", "r", "o", "d", "u", "c", "t", "i", "o", "n", "-", "u", "r", "l", "/", "c", "h", "e", "c", "k", "o", "u", "t", "/", "s", "u", "c", "c", "e", "s", "s">>  \* "https://your-production-url/checkout/success"
      [] key = "STRIPE_SECRET_KEY" -> <<"y", "o", "u", "r", "-", "s", "t", "r", "i", "p", "e", "-", "s", "e", "c", "r", "e", "t", "-", "k", "e", "y">>  \* "your-stripe-secret-key"
      [] key = "STRIPE_PUBLISHABLE_KEY" -> <<"y", "o", "u", "r", "-", "s", "t", "r", "i", "p", "e", "-", "p", "u", "b", "l", "i", "s", "h", "a", "b", "l", "e", "-", "k", "e", "y">>  \* "your-stripe-publishable-key"
      [] key = "ALLOWED_IMAGE_TYPES" -> <<<<"i", "m", "a", "g", "e", "/", "j", "p", "e", "g">>, <<"i", "m", "a", "g", "e", "/", "p", "n", "g">>>>  \* "image/jpeg", "image/png"
      [] key = "ALLOWED_VIDEO_TYPES" -> <<<<"v", "i", "d", "e", "o", "/", "m", "p", "4">>>>  \* "video/mp4"
      [] key = "ALLOWED_DOCUMENT_TYPES" -> <<<<"a", "p", "p", "l", "i", "c", "a", "t", "i", "o", "n", "/", "p", "d", "f">>>>  \* "application/pdf"
      [] key = "MAX_IMAGE_SIZE" -> 2 * 1024 * 1024
      [] key = "MAX_VIDEO_SIZE" -> 100 * 1024 * 1024
      [] key = "MAX_DOCUMENT_SIZE" -> 10 * 1024 * 1024

\* the value the latest LoadConfig read for a variable ("" when not set)
LoadedValue(key) == IF loaded[key].set THEN loaded[key].val ELSE <<>>

IsNonEmpty(s) == s /= <<>>

\* the comma-separated pieces of a value, trimmed, the empty ones dropped
TrimmedPieces(value) ==
    LET pieces == SplitComma(value, <<>>)
    IN  SelectSeq([i \in 1..Len(pieces) |-> TrimSpace(pieces[i])], IsNonEmpty)

\* parse-with-fallback, as the specification states it: the value a field
\* has after a load, from what the load read
DerivedValue(key) ==
    LET value == LoadedValue(key)
    IN  IF value = <<>> THEN DocumentedDefault(key)
        ELSE IF key \in StringKeys THEN value
        ELSE IF key \in IntKeys \cup Int64Keys
             THEN IF ParseInt(value).ok THEN ParseInt(value).val ELSE DocumentedDefault(key)
        ELSE IF key \in DurationKeys
             THEN IF ParseDuration(value).ok THEN ParseDuration(value).val
                  ELSE DocumentedDefault(key)
        ELSE TrimmedPieces(value)

-----------------------------------------------------------------------------
(* C1 *)

\* C1: after a load, every field whose variable was unset or set to the
\* empty string holds exactly its documented default; an empty value and
\* an absent variable give the same field.
C1_UnsetOrEmptyYieldsDefault ==
    Initialized =>
        \A key \in SupportedKeys :
            (~loaded[key].set \/ loaded[key].val = <<>>) =>
                Field(Snapshot, key) = DocumentedDefault(key)

\* a load that found some variable set to the empty string
C1_Witness ==
    /\ Initialized
    /\ \E key \in SupportedKeys :
           loaded[key] = Present(<<>>) /\ Field(Snapshot, key) = DocumentedDefault(key)
    /\ Snapshot.ServerHost = <<"l", "o", "c", "a", "l", "h", "o", "s", "t">>  \* "localhost"
    /\ Snapshot.RateLimitAttempts = 100
    /\ Snapshot.RateLimitDuration = Seconds(60)
    /\ Snapshot.TrustedProxies = <<<<"l", "o", "c", "a", "l", "h", "o", "s", "t">>>>  \* "localhost"

-----------------------------------------------------------------------------
(* C2 *)

NumericKeys == IntKeys \cup (Int64Keys \cap SupportedKeys) \cup DurationKeys

\* a step of LoadConfig once it has started
LoadConfig_Continue ==
    \/ LoadConfig_ImageTypes
    \/ LoadConfig_VideoTypes
    \/ LoadConfig_DocumentTypes
    \/ LoadConfig_MaxFileSize
    \/ LoadConfig_Println

\* C2: for every integer, long-integer and duration variable and every
\* value of it, LoadConfig runs to completion, and the field holds the
\* parsed value when the value is non-empty and parses in the target type
\* and the default otherwise (non-numeric, out of range, not a duration).
C2_MalformedNumbersFallBack ==
    /\ pc \in {"L136", "L137", "L138", "L140", "L146"} => ENABLED LoadConfig_Continue
    /\ Initialized =>
        \A key \in NumericKeys :
            /\ Field(Snapshot, key) = DerivedValue(key)
            /\ LoadedValue(key) = <<"n", "o", "t", "a", "d", "u", "r", "a", "t", "i", "o", "n">> => Field(Snapshot, key) = Seconds(60)  \* "notaduration"
            /\ LoadedValue(key) = <<"2", "s">> => Field(Snapshot, key) = Seconds(2)  \* "2s"
            /\ LoadedValue(key) = <<"2", "h", "3", "0", "m">> => Field(Snapshot, key) = Seconds(9000)  \* "2h30m"
            /\ LoadedValue(key) = <<"1", "0", "4", "8", "5", "7", "6">> => Field(Snapshot, key) = 1048576  \* "1048576"
            /\ LoadedValue(key) = <<"+", "0", "0", "7">> => Field(Snapshot, key) = 7  \* "+007"
            /\ LoadedValue(key) \in {<<"1", "2", "a">>, <<" ", "5">>, <<"9", "9", "9", "9", "9", "9", "9", "9", "9", "9", "9", "9", "9", "9", "9", "9", "9", "9", "9", "9">>, <<"5">>}  \* "12a", " 5", "99999999999999999999", "5"
                   => Field(Snapshot, key) = DocumentedDefault(key)

\* a load that read a value that is not a duration
C2_Witness ==
    /\ Initialized
    /\ LoadedValue("RATE_LIMIT_DURATION") = <<"n", "o", "t", "a", "d", "u", "r", "a", "t", "i", "o", "n">>  \* "notaduration"
    /\ Snapshot.RateLimitDuration = Seconds(60)

-----------------------------------------------------------------------------
(* C3 *)

Elements(seq) == {seq[i] : i \in 1..Len(seq)}

\* C3: a string-sequence field is the default sequence when its variable
\* is unset or empty; otherwise it is the comma-separated pieces of the
\* value in order, trimmed, the empty ones dropped, with nothing of the
\* default merged in.
C3_SequencesSplitTrimDrop ==
    Initialized =>
        \A key \in SliceKeys :
            LET value == LoadedValue(key)
                field == Field(Snapshot, key)
            IN  IF value = <<>> THEN field = DocumentedDefault(key)
                ELSE /\ field = TrimmedPieces(value)
                     /\ \A d \in Elements(DocumentedDefault(key)) :
                            d \in Elements(field) =>
                                \E p \in Elements(SplitComma(value, <<>>)) : TrimSpace(p) = d
                     /\ value = <<"a", ",", " ", "b", " ", ",", ",", "c">> => field = <<<<"a">>, <<"b">>, <<"c">>>>  \* "a, b ,,c", "a", "b", "c"
                     /\ value = <<" ", ",", " ">> => field = <<>>  \* " , "

\* a load that read TRUSTED_PROXIES="a, b ,,c"
C3_Witness ==
    /\ Initialized
    /\ LoadedValue("TRUSTED_PROXIES") = <<"a", ",", " ", "b", " ", ",", ",", "c">>  \* "a, b ,,c"
    /\ Snapshot.TrustedProxies = <<<<"a">>, <<"b">>, <<"c">>>>

-----------------------------------------------------------------------------
(* C4 *)

\* C4 as stated: after a load with APP_ENV of any value other than
\* "production", IsDevelopment returns true; with "production",
\* IsProduction returns true and IsDevelopment false.
C4_AnyOtherModeIsDevelopment ==
    Initialized =>
        /\ LoadedValue("APP_ENV") /= <<"p", "r", "o", "d", "u", "c", "t", "i", "o", "n">> => IsDevelopment  \* "production"
        /\ LoadedValue("APP_ENV") = <<"p", "r", "o", "d", "u", "c", "t", "i", "o", "n">> => IsProduction /\ ~IsDevelopment  \* "production"

\* C4 amended: after a load with APP_ENV unset, empty or "development",
\* IsDevelopment returns true and IsProduction false; with "production",
\* IsProduction returns true and IsDevelopment false; with any other value
\* both return false.
C4_ModeAccessorsAfterLoad ==
    Initialized =>
        LET mode == LoadedValue("APP_ENV")
        IN  /\ mode \in {<<>>, <<"d", "e", "v", "e", "l", "o", "p", "m", "e", "n", "t">>} => IsDevelopment /\ ~IsProduction  \* "", "development"
            /\ mode = <<"p", "r", "o", "d", "u", "c", "t", "i", "o", "n">> => IsProduction /\ ~IsDevelopment  \* "production"
            /\ mode \notin {<<>>, <<"d", "e", "v", "e", "l", "o", "p", "m", "e", "n", "t">>, <<"p", "r", "o", "d", "u", "c", "t", "i", "o", "n">>}  \* "", "development", "production"
                   => ~IsDevelopment /\ ~IsProduction

\* a load that read APP_ENV="staging"
C4_Witness ==
    /\ Initialized
    /\ LoadedValue("APP_ENV") = <<"s", "t", "a", "g", "i", "n", "g">>  \* "staging"
    /\ ~IsDevelopment
    /\ ~IsProduction

-----------------------------------------------------------------------------
(* C5 *)

\* C5: whenever the snapshot is present, IsProduction is true exactly when
\* its environment mode is "production" and IsDevelopment exactly when it
\* is "development", letter case included; the two are never both true.
C5_ModeAccessorsExact ==
    AppConfig /= Nil =>
        /\ IsProduction <=> Snapshot.AppEnv = <<"p", "r", "o", "d", "u", "c", "t", "i", "o", "n">>  \* "production"
        /\ IsDevelopment <=> Snapshot.AppEnv = <<"d", "e", "v", "e", "l", "o", "p", "m", "e", "n", "t">>  \* "development"
        /\ Snapshot.AppEnv = <<"P", "r", "o", "d", "u", "c", "t", "i", "o", "n">> => ~IsProduction  \* "Production"
        /\ ~(IsProduction /\ IsDevelopment)

\* a snapshot whose environment mode is "Production"
C5_Witness ==
    /\ Initialized
    /\ Snapshot.AppEnv = <<"P", "r", "o", "d", "u", "c", "t", "i", "o", "n">>  \* "Production"
    /\ ~IsProduction
    /\ ~IsDevelopment

-----------------------------------------------------------------------------
(* C6 *)

\* C6: once a LoadConfig has completed, the first or a later one, every
\* field holds the value derived from the environment that call read, and
\* a field whose variable had a value for the call before and none for
\* this one is back at its default: nothing of the earlier load remains.
C6_ReloadReplacesEveryField ==
    Initialized =>
        /\ DOMAIN Snapshot.MaxFileSize = {"images", "videos", "documents"}
        /\ \A key \in SupportedKeys : Field(Snapshot, key) = DerivedValue(key)
        /\ \A key \in dropped \cap SupportedKeys :
               Field(Snapshot, key) = DocumentedDefault(key)

\* a second load for which PORT, set for the first load, was unset
C6_Witness ==
    /\ Initialized
    /\ AppConfig = 2
    /\ "PORT" \in dropped
    /\ Snapshot.ServerPort = <<"8", "0", "8", "0">>  \* "8080"

-----------------------------------------------------------------------------
(* C7 *)

\* what the accessors return is fixed by what the latest load read
AccessorsReflectLoad ==
    Initialized =>
        /\ GetServerAddress = DerivedValue("HOST") \o <<":">> \o DerivedValue("PORT")
        /\ IsProduction <=> DerivedValue("APP_ENV") = <<"p", "r", "o", "d", "u", "c", "t", "i", "o", "n">>  \* "production"
        /\ IsDevelopment <=> DerivedValue("APP_ENV") = <<"d", "e", "v", "e", "l", "o", "p", "m", "e", "n", "t">>  \* "development"

\* C7: between two calls of LoadConfig no operation (a change of the
\* environment, a call of an accessor) changes the snapshot reference or a
\* field of the snapshot, and the accessors keep returning the values fixed
\* by the environment as the latest LoadConfig read it.
C7_NoHotReload ==
    /\ []AccessorsReflectLoad
    /\ [][(pc = "idle" /\ pc' /= "L136") => (AppConfig' = AppConfig /\ heap' = heap)]_vars

\* the environment has changed since the load and the accessor has not
C7_Witness ==
    /\ Initialized
    /\ ~loaded["HOST"].set
    /\ Getenv("HOST") = <<"a", "p", "i", ".", "e", "x", "a", "m", "p", "l", "e", ".", "c", "o", "m">>  \* "api.example.com"
    /\ GetServerAddress = <<"l", "o", "c", "a", "l", "h", "o", "s", "t", ":", "8", "0", "8", "0">>  \* "localhost:8080"

-----------------------------------------------------------------------------
(* C8 *)

CanPanic(Call) == ENABLED (Call /\ pc' = "panic")

CanReturn(Call) == ENABLED (Call /\ pc' = "idle")

\* C8: while the snapshot reference is absent a call of an accessor can
\* only fail; once it is present a call can only return; a failure happens
\* only before any load; after a load has completed the reference is never
\* absent.
C8_TwoPhases ==
    /\ (pc = "idle" /\ AppConfig = Nil) =>
           /\ CanPanic(Call_GetServerAddress) /\ ~CanReturn(Call_GetServerAddress)
           /\ CanPanic(Call_IsProduction) /\ ~CanReturn(Call_IsProduction)
           /\ CanPanic(Call_IsDevelopment) /\ ~CanReturn(Call_IsDevelopment)
    /\ (pc = "idle" /\ AppConfig /= Nil) =>
           /\ CanReturn(Call_GetServerAddress) /\ ~CanPanic(Call_GetServerAddress)
           /\ CanReturn(Call_IsProduction) /\ ~CanPanic(Call_IsProduction)
           /\ CanReturn(Call_IsDevelopment) /\ ~CanPanic(Call_IsDevelopment)
    /\ pc = "panic" => AppConfig = Nil /\ stdout = 0
    /\ stdout > 0 => AppConfig /= Nil

\* an accessor was called before any load, and the process has crashed
C8_Witness == pc = "panic" /\ AppConfig = Nil /\ envCalls > 0

-----------------------------------------------------------------------------
(* C9 *)

\* C9: whenever the snapshot is present GetServerAddress is its host, ":",
\* and its port as text; after a load with HOST=api.example.com and
\* PORT=9090 it is "api.example.com:9090", with both unset "localhost:8080".
C9_ServerAddress ==
    /\ AppConfig /= Nil =>
           GetServerAddress = Snapshot.ServerHost \o <<":">> \o Snapshot.ServerPort
    /\ Initialized =>
           /\ (LoadedValue("HOST") = <<"a", "p", "i", ".", "e", "x", "a", "m", "p", "l", "e", ".", "c", "o", "m">> /\ LoadedValue("PORT") = <<"9", "0", "9", "0">>)  \* "api.example.com", "9090"
                  => GetServerAddress = <<"a", "p", "i", ".", "e", "x", "a", "m", "p", "l", "e", ".", "c", "o", "m", ":", "9", "0", "9", "0">>  \* "api.example.com:9090"
           /\ (LoadedValue("HOST") = <<>> /\ LoadedValue("PORT") = <<>>)
                  => GetServerAddress = <<"l", "o", "c", "a", "l", "h", "o", "s", "t", ":", "8", "0", "8", "0">>  \* "localhost:8080"
           /\ (LoadedValue("HOST") = <<>> /\ LoadedValue("PORT") = <<"h", "t", "t", "p">>)  \* "http"
                  => GetServerAddress = <<"l", "o", "c", "a", "l", "h", "o", "s", "t", ":", "h", "t", "t", "p">>  \* "localhost:http"

\* a load that read HOST=api.example.com and PORT=9090
C9_Witness ==
    /\ Initialized
    /\ LoadedValue("HOST") = <<"a", "p", "i", ".", "e", "x", "a", "m", "p", "l", "e", ".", "c", "o", "m">>  \* "api.example.com"
    /\ LoadedValue("PORT") = <<"9", "0", "9", "0">>  \* "9090"
    /\ GetServerAddress = <<"a", "p", "i", ".", "e", "x", "a", "m", "p", "l", "e", ".", "c", "o", "m", ":", "9", "0", "9", "0">>  \* "api.example.com:9090"

-----------------------------------------------------------------------------
(* C10 *)

\* C10: whatever snapshot the global reference points to, at every step of
\* LoadConfig too, is fully populated: its per-category maximum sizes and
\* its allowed MIME types are those of the load that installed it.
C10_ReferenceOnlyToCompleteSnapshot ==
    AppConfig /= Nil =>
        /\ DOMAIN Snapshot.MaxFileSize = {"images", "videos", "documents"}
        /\ \A key \in {"ALLOWED_IMAGE_TYPES", "ALLOWED_VIDEO_TYPES", "ALLOWED_DOCUMENT_TYPES"} :
               Field(Snapshot, key) = DerivedValue(key)

=============================================================================
